---- MODULE Spec2Model ----
(***************************************************************************)
(* Model of the Ouk Chaktrang game server (src/server.js).  The file holds *)
(* three alternative servers: the in-memory one (lines 1-310, "mem"), the  *)
(* document-store one (lines 312-560, "doc") and the relational one (lines *)
(* 562-1087, "sql").  One of them is deployed; `variant` says which.       *)
(***************************************************************************)
EXTENDS Integers, Sequences, FiniteSets, Bags, TLC

VARIABLES
    variant,    \* which of the three servers runs: "mem", "doc" or "sql"
    users,      \* the stored accounts, in insertion order (array / collection / table)
    pending,    \* bag of register requests suspended at their await, after the existence check
    nextId,     \* source of fresh account ids (Date.now()+random / randomUUID / SERIAL)
    tokens,     \* the session tokens jwt.sign has issued so far
    resp,       \* the last request handled and the response it got
    ledger,     \* history: per account, the game results the server accepted for it
    now,        \* logical clock: the value of the last new Date() / NOW()
    left        \* how many more state-changing requests (login, update, game result) the run takes

vars == <<variant, users, pending, nextId, tokens, resp, ledger, now, left>>

----------------------------------------------------------------------------
(* Bounds of the model *)

MaxUsers == 2       \* accounts that may exist (stored or about to be inserted)
MaxOps == 1         \* logins, updates and game results accepted in a run from the empty store
MaxGames == 2       \* game results accepted in a run from a preloaded store
MaxNow == 33        \* the last day the clock reaches

(* Program constants *)

InitialCoins == 1000
InitialDiamonds == 10
InitialLevel == 1
XpWin == 100
XpLoss == 25
LevelCap == 50
DefaultWinCoins == 100
DefaultWinDiamonds == 1
DefaultLossCoins == 10
DefaultLossDiamonds == 0
MinUsernameLen == 3
MinPasswordLen == 6
SessionDays == 7            \* expiresIn: '7d' of the in-memory and document-store servers
SessionDaysSql == 30        \* expiresIn: '30d' of the relational server

(* Request inputs.  "" stands for a field the request does not carry. *)

Earned == {<<0, 0>>, <<50, 1>>, <<-10, -1>>}

\* how a game can end; the ledger keeps one counter for each
Outcomes == {"Win", "Loss", "Draw"}
UserIds == 1..(MaxUsers + 1)

----------------------------------------------------------------------------
(* Helpers *)

\* Array.prototype.findIndex / find: the first stored account that satisfies P, 0 if none
FindIndex(P(_)) ==
    IF \E i \in 1..Len(users) : P(users[i])
    THEN CHOOSE i \in 1..Len(users) : P(users[i]) /\ \A j \in 1..(i - 1) : ~P(users[j])
    ELSE 0

\* bcrypt.hash: a one-way function of the password (the salt is abstracted)
hashPassword(password) == "$2b$10$" \o password

\* bcrypt.compare
comparePassword(password, hash) == hash = hashPassword(password)

\* the days a token lives
Lifetime == IF variant = "sql" THEN SessionDaysSql ELSE SessionDays

\* jwt.sign(payload, secret, { expiresIn }): the token names the account and the day it expires
SignToken(userId) == [userId |-> userId, sig |-> "ok", exp |-> now + Lifetime]

NoToken == [userId |-> 0, sig |-> "none"]
ForgedToken(userId) == [userId |-> userId, sig |-> "bad"]

\* a token that is no JWT at all
MalformedToken == [userId |-> 0, sig |-> "malformed"]

\* VerifyOk without the expiry test: a well-signed token is good for ever
VerifyOkNoExpiry(token) == token.sig = "ok"

\* jwt.verify(token, JWT_SECRET) does not throw: the signature is ours and the expiry is ahead
VerifyOk(token) == token.sig = "ok" /\ now < token.exp

\* the name of the error jwt.verify throws: JsonWebTokenError for a token that is malformed or
\* wrongly signed, TokenExpiredError for a well-signed one whose expiry has passed
VerifyError(token) ==
    IF token.sig /= "ok" THEN "JsonWebTokenError" ELSE "TokenExpiredError"

\* a field of a request body, "" (falsy) when the body does not carry it
Get(body, key) == IF key \in DOMAIN body THEN body[key] ELSE ""

NoGames == [games |-> 0, coins |-> 0, diamonds |-> 0]

\* the history entry of account i after one more accepted game result
Played(i, coinsEarned, diamondsEarned) ==
    [ledger EXCEPT ![i] = [games |-> @.games + 1,
                           coins |-> @.coins + coinsEarned,
                           diamonds |-> @.diamonds + diamondsEarned]]

----------------------------------------------------------------------------
(* The in-memory server, lines 1-310 *)

\* NewUserMem with the level defaults left out, so that both levels start at 0
NewUserMemNoLevels(id, username, email, passwordHash, displayName, date) ==
    [userId |-> id,
     username |-> username,
     email |-> email,
     passwordHash |-> passwordHash,
     displayName |-> IF displayName /= "" THEN displayName ELSE username,
     avatarUrl |-> "default_avatar",
     coins |-> InitialCoins,
     diamonds |-> InitialDiamonds,
     totalWins |-> 0,
     totalLosses |-> 0,
     totalDraws |-> 0,
     currentLevel |-> 0,
     highestLevel |-> 0,
     experiencePoints |-> 0,
     guildName |-> "",
     country |-> "Cambodia",
     isDeveloper |-> FALSE,
     isPremium |-> FALSE,
     lastLogin |-> date]

\* the object literal of lines 127-155
NewUserMem(id, username, email, passwordHash, displayName, date) ==
    [userId |-> id,
     username |-> username,
     email |-> email,
     passwordHash |-> passwordHash,
     displayName |-> IF displayName /= "" THEN displayName ELSE username,
     avatarUrl |-> "default_avatar",
     coins |-> InitialCoins,
     diamonds |-> InitialDiamonds,
     totalWins |-> 0,
     totalLosses |-> 0,
     totalDraws |-> 0,
     currentLevel |-> InitialLevel,
     highestLevel |-> InitialLevel,
     experiencePoints |-> 0,
     guildName |-> "",
     country |-> "Cambodia",
     isDeveloper |-> FALSE,
     isPremium |-> FALSE,
     lastLogin |-> date]

\* the fields the in-memory responses copy out of an account (lines 75-96, 168-189, ...)
SnapshotMem(u) ==
    [k \in DOMAIN u \ {"passwordHash"} |-> u[k]]

\* POST /api/auth/register up to its await (lines 106-124)
RegisterBeginMem(body) ==
    /\ variant = "mem"
    /\ LET username == body.username
           email == body.email
           password == body.password
       IN IF username = "" \/ email = "" \/ password = ""
          THEN /\ resp' = [op |-> "register", req |-> body, status |-> 400,
                           body |-> [error |-> "Username, email, and password required"]]
               /\ UNCHANGED pending
          ELSE IF \E i \in 1..Len(users) : users[i].email = email
          THEN /\ resp' = [op |-> "register", req |-> body, status |-> 400,
                           body |-> [error |-> "Email already registered"]]
               /\ UNCHANGED pending
          ELSE IF \E i \in 1..Len(users) : users[i].username = username
          THEN /\ resp' = [op |-> "register", req |-> body, status |-> 400,
                           body |-> [error |-> "Username already taken"]]
               /\ UNCHANGED pending
          ELSE /\ Len(users) + BagCardinality(pending) < MaxUsers
               /\ pending' = pending (+) SetToBag({body})
               /\ UNCHANGED resp
    /\ UNCHANGED <<variant, users, nextId, tokens, ledger, now, left>>

\* POST /api/auth/register after its await (lines 124-191)
RegisterFinishMem(body) ==
    /\ variant = "mem"
    /\ BagIn(body, pending)
    /\ LET newUser == NewUserMem(nextId, body.username, body.email,
                                 hashPassword(body.password), body.displayName, now + 1)
           token == SignToken(newUser.userId)
       IN /\ users' = Append(users, newUser)
          /\ ledger' = Append(ledger, NoGames)
          /\ tokens' = tokens \cup {token}
          /\ resp' = [op |-> "register", req |-> body, status |-> 201,
                      body |-> [token |-> token, user |-> SnapshotMem(newUser)]]
    /\ pending' = pending (-) SetToBag({body})
    /\ nextId' = nextId + 1
    /\ now' = now + 1
    /\ UNCHANGED <<variant, left>>

\* LoginMem with line 70 moved before the password check: a login with a wrong password
\* stamps the account it names
LoginMemStampFirst(body) ==
    /\ variant = "mem"
    /\ LET email == body.email
           password == body.password
           i == FindIndex(LAMBDA u : u.email = email)
       IN IF email = "" \/ password = ""
          THEN /\ resp' = [op |-> "login", req |-> body, status |-> 400,
                           body |-> [error |-> "Email and password required"]]
               /\ UNCHANGED <<users, tokens, now, left>>
          ELSE IF i = 0
          THEN /\ resp' = [op |-> "login", req |-> body, status |-> 401,
                           body |-> [error |-> "Invalid credentials"]]
               /\ UNCHANGED <<users, tokens, now, left>>
          ELSE IF ~comparePassword(password, users[i].passwordHash)
          THEN /\ resp' = [op |-> "login", req |-> body, status |-> 401,
                           body |-> [error |-> "Invalid credentials"]]
               /\ users' = [users EXCEPT ![i].lastLogin = now + 1]
               /\ UNCHANGED <<tokens, now, left>>
          ELSE /\ left > 0
               /\ left' = left - 1
               /\ now' = now + 1
               /\ users' = [users EXCEPT ![i].lastLogin = now + 1]
               /\ tokens' = tokens \cup {SignToken(users[i].userId)}
               /\ resp' = [op |-> "login", req |-> body, status |-> 200,
                           body |-> [token |-> SignToken(users[i].userId),
                                     user |-> SnapshotMem(users'[i])]]
    /\ UNCHANGED <<variant, pending, nextId, ledger>>

\* POST /api/auth/login (lines 43-103)
LoginMem(body) ==
    /\ variant = "mem"
    /\ LET email == body.email
           password == body.password
           i == FindIndex(LAMBDA u : u.email = email)
       IN IF email = "" \/ password = ""
          THEN /\ resp' = [op |-> "login", req |-> body, status |-> 400,
                           body |-> [error |-> "Email and password required"]]
               /\ UNCHANGED <<users, tokens, now, left>>
          ELSE IF i = 0
          THEN /\ resp' = [op |-> "login", req |-> body, status |-> 401,
                           body |-> [error |-> "Invalid credentials"]]
               /\ UNCHANGED <<users, tokens, now, left>>
          ELSE IF ~comparePassword(password, users[i].passwordHash)
          THEN /\ resp' = [op |-> "login", req |-> body, status |-> 401,
                           body |-> [error |-> "Invalid credentials"]]
               /\ UNCHANGED <<users, tokens, now, left>>
          ELSE /\ left > 0
               /\ left' = left - 1
               /\ now' = now + 1
               /\ users' = [users EXCEPT ![i].lastLogin = now + 1]
               /\ tokens' = tokens \cup {SignToken(users[i].userId)}
               /\ resp' = [op |-> "login", req |-> body, status |-> 200,
                           body |-> [token |-> SignToken(users[i].userId),
                                     user |-> SnapshotMem(users'[i])]]
    /\ UNCHANGED <<variant, pending, nextId, ledger>>

\* GET /api/user/profile/:userId (lines 198-228); the route checks no token
GetProfileMem(userId) ==
    /\ variant = "mem"
    /\ LET i == FindIndex(LAMBDA u : u.userId = userId)
           req == [userId |-> userId]
       IN resp' = IF i = 0
                  THEN [op |-> "profile", req |-> req, status |-> 404,
                        body |-> [error |-> "User not found"]]
                  ELSE [op |-> "profile", req |-> req, status |-> 200,
                        body |-> [user |-> SnapshotMem(users[i])]]
    /\ UNCHANGED <<variant, users, pending, nextId, tokens, ledger, now, left>>

\* the field updates of lines 241-244
UpdateFieldsMem(user, updates) ==
    [user EXCEPT
        !.displayName = IF Get(updates, "displayName") /= "" THEN updates.displayName ELSE @,
        !.avatarUrl = IF Get(updates, "avatarUrl") /= "" THEN updates.avatarUrl ELSE @,
        !.country = IF Get(updates, "country") /= "" THEN updates.country ELSE @,
        !.guildName = IF Get(updates, "guildName") /= "" THEN updates.guildName ELSE @]

\* PUT /api/user/update/:userId (lines 231-269)
UpdateProfileMem(userId, updates) ==
    /\ variant = "mem"
    /\ LET i == FindIndex(LAMBDA u : u.userId = userId)
       IN IF i = 0
          THEN /\ resp' = [op |-> "update", req |-> [userId |-> userId, updates |-> updates],
                           status |-> 404, body |-> [error |-> "User not found"]]
               /\ UNCHANGED <<users, left>>
          ELSE /\ left > 0
               /\ left' = left - 1
               /\ users' = [users EXCEPT ![i] = UpdateFieldsMem(@, updates)]
               /\ resp' = [op |-> "update", req |-> [userId |-> userId, updates |-> updates],
                           status |-> 200, body |-> [user |-> SnapshotMem(users'[i])]]
    /\ UNCHANGED <<variant, pending, nextId, tokens, ledger, now>>

\* ApplyResultMem without the level < 50 test of line 293
ApplyResultMemNoCap(user, win, level, coinsEarned, diamondsEarned) ==
    LET u1 == IF win
              THEN [user EXCEPT !.totalWins = @ + 1, !.experiencePoints = @ + XpWin]
              ELSE [user EXCEPT !.totalLosses = @ + 1, !.experiencePoints = @ + XpLoss]
        u2 == [u1 EXCEPT !.coins = @ + coinsEarned, !.diamonds = @ + diamondsEarned]
        u3 == IF win /\ level > 0 /\ level = u2.currentLevel
              THEN [u2 EXCEPT !.currentLevel = @ + 1]
              ELSE u2
    IN IF win /\ level > 0 /\ level > u3.highestLevel
       THEN [u3 EXCEPT !.highestLevel = level]
       ELSE u3

\* ApplyResultMem that drops the submission: the account stays as it was
ApplyResultMemDropped(user, win, level, coinsEarned, diamondsEarned) == user

\* ApplyResultMem without line 286: a lost game adds no experience
ApplyResultMemLossNoXp(user, win, level, coinsEarned, diamondsEarned) ==
    LET u1 == IF win
              THEN [user EXCEPT !.totalWins = @ + 1, !.experiencePoints = @ + XpWin]
              ELSE [user EXCEPT !.totalLosses = @ + 1]
        u2 == [u1 EXCEPT !.coins = @ + coinsEarned, !.diamonds = @ + diamondsEarned]
        u3 == IF win /\ level > 0 /\ level = u2.currentLevel /\ level < LevelCap
              THEN [u2 EXCEPT !.currentLevel = @ + 1]
              ELSE u2
    IN IF win /\ level > 0 /\ level > u3.highestLevel
       THEN [u3 EXCEPT !.highestLevel = level]
       ELSE u3

\* ApplyResultMem without the level > user.highestLevel test of line 296: every win at a
\* level above 0 stores the level played
ApplyResultMemNoMax(user, win, level, coinsEarned, diamondsEarned) ==
    LET u1 == IF win
              THEN [user EXCEPT !.totalWins = @ + 1, !.experiencePoints = @ + XpWin]
              ELSE [user EXCEPT !.totalLosses = @ + 1, !.experiencePoints = @ + XpLoss]
        u2 == [u1 EXCEPT !.coins = @ + coinsEarned, !.diamonds = @ + diamondsEarned]
        u3 == IF win /\ level > 0 /\ level = u2.currentLevel /\ level < LevelCap
              THEN [u2 EXCEPT !.currentLevel = @ + 1]
              ELSE u2
    IN IF win /\ level > 0
       THEN [u3 EXCEPT !.highestLevel = level]
       ELSE u3

\* ApplyResultMem without the level == user.currentLevel test of line 293: every win at a
\* level in 1..49 raises the current level
ApplyResultMemAnyWin(user, win, level, coinsEarned, diamondsEarned) ==
    LET u1 == IF win
              THEN [user EXCEPT !.totalWins = @ + 1, !.experiencePoints = @ + XpWin]
              ELSE [user EXCEPT !.totalLosses = @ + 1, !.experiencePoints = @ + XpLoss]
        u2 == [u1 EXCEPT !.coins = @ + coinsEarned, !.diamonds = @ + diamondsEarned]
        u3 == IF win /\ level > 0 /\ level < LevelCap
              THEN [u2 EXCEPT !.currentLevel = @ + 1]
              ELSE u2
    IN IF win /\ level > 0 /\ level > u3.highestLevel
       THEN [u3 EXCEPT !.highestLevel = level]
       ELSE u3

\* the account after lines 280-299
ApplyResultMem(user, win, level, coinsEarned, diamondsEarned) ==
    LET u1 == IF win
              THEN [user EXCEPT !.totalWins = @ + 1, !.experiencePoints = @ + XpWin]
              ELSE [user EXCEPT !.totalLosses = @ + 1, !.experiencePoints = @ + XpLoss]
        u2 == [u1 EXCEPT !.coins = @ + coinsEarned, !.diamonds = @ + diamondsEarned]
        u3 == IF win /\ level > 0 /\ level = u2.currentLevel /\ level < LevelCap
              THEN [u2 EXCEPT !.currentLevel = @ + 1]
              ELSE u2
    IN IF win /\ level > 0 /\ level > u3.highestLevel
       THEN [u3 EXCEPT !.highestLevel = level]
       ELSE u3

\* POST /api/game/result (lines 272-302); the handler reads no token.  outcome is how the
\* game ended: the body has no field for it, line 273 reads win and nothing else about it
GameResultMem(token, userId, outcome, win, level, coinsEarned, diamondsEarned) ==
    /\ variant = "mem"
    /\ LET i == FindIndex(LAMBDA u : u.userId = userId)
           req == [token |-> token, userId |-> userId, outcome |-> outcome,
                   win |-> win, level |-> level,
                   coinsEarned |-> coinsEarned, diamondsEarned |-> diamondsEarned]
       IN IF i = 0
          THEN /\ resp' = [op |-> "gameResult", req |-> req, status |-> 404,
                           body |-> [error |-> "User not found"]]
               /\ UNCHANGED <<users, ledger, left>>
          ELSE /\ left > 0
               /\ left' = left - 1
               /\ users' = [users EXCEPT
                              ![i] = ApplyResultMem(@, win, level, coinsEarned, diamondsEarned)]
               /\ ledger' = Played(i, coinsEarned, diamondsEarned)
               /\ resp' = [op |-> "gameResult", req |-> req, status |-> 200,
                           body |-> [success |-> TRUE, message |-> "Game result saved"]]
    /\ UNCHANGED <<variant, pending, nextId, tokens, now>>

----------------------------------------------------------------------------
(* The document-store server, lines 312-560 *)

\* new User({...}) with the schema defaults of lines 330-358
NewUserDoc(id, username, email, passwordHash, displayName, date) ==
    [userId |-> id,
     username |-> username,
     email |-> email,
     passwordHash |-> passwordHash,
     displayName |-> IF displayName /= "" THEN displayName ELSE username,
     avatarUrl |-> "default_avatar",
     country |-> "Cambodia",
     coins |-> InitialCoins,
     diamonds |-> InitialDiamonds,
     totalWins |-> 0,
     totalLosses |-> 0,
     totalDraws |-> 0,
     currentLevel |-> InitialLevel,
     highestLevel |-> InitialLevel,
     experiencePoints |-> 0,
     guildName |-> "",
     isDeveloper |-> FALSE,
     isPremium |-> FALSE,
     lastLogin |-> date]

\* SnapshotDoc without the delete: the whole document
SnapshotDocWhole(u) == u

\* user.toObject() followed by delete userResponse.passwordHash
SnapshotDoc(u) ==
    [k \in DOMAIN u \ {"passwordHash"} |-> u[k]]

\* the unique indexes of the schema (lines 331-333) accept the collection
UniqueDoc(coll) ==
    \A i, j \in 1..Len(coll) :
        i /= j => /\ coll[i].userId /= coll[j].userId
                  /\ coll[i].username /= coll[j].username
                  /\ coll[i].email /= coll[j].email

\* POST /api/auth/register up to the answer of findOne (lines 419-434)
RegisterBeginDoc(body) ==
    /\ variant = "doc"
    /\ LET i == FindIndex(LAMBDA u : u.email = body.email \/ u.username = body.username)
       IN IF i /= 0
          THEN /\ resp' = [op |-> "register", req |-> body, status |-> 400,
                           body |-> [error |-> IF users[i].email = body.email
                                               THEN "Email already registered"
                                               ELSE "Username already taken"]]
               /\ UNCHANGED pending
          ELSE /\ Len(users) + BagCardinality(pending) < MaxUsers
               /\ pending' = pending (+) SetToBag({body})
               /\ UNCHANGED resp
    /\ UNCHANGED <<variant, users, nextId, tokens, ledger, now, left>>

\* POST /api/auth/register from new User to the response (lines 436-467)
RegisterFinishDoc(body) ==
    /\ variant = "doc"
    /\ BagIn(body, pending)
    /\ pending' = pending (-) SetToBag({body})
    /\ LET newUser == NewUserDoc(nextId, body.username, body.email,
                                 hashPassword(body.password), body.displayName, now + 1)
           token == SignToken(newUser.userId)
       IN IF \/ body.password = ""                       \* bcrypt.hashSync(undefined) throws
             \/ body.username = "" \/ body.email = ""    \* required: true
             \/ ~UniqueDoc(Append(users, newUser))       \* duplicate key error of save()
          THEN /\ resp' = [op |-> "register", req |-> body, status |-> 500,
                           body |-> [error |-> "Server error"]]
               /\ UNCHANGED <<users, ledger, tokens, nextId, now>>
          ELSE /\ users' = Append(users, newUser)
               /\ ledger' = Append(ledger, NoGames)
               /\ tokens' = tokens \cup {token}
               /\ nextId' = nextId + 1
               /\ now' = now + 1
               /\ resp' = [op |-> "register", req |-> body, status |-> 201,
                           body |-> [token |-> token, user |-> SnapshotDoc(newUser)]]
    /\ UNCHANGED <<variant, left>>

\* POST /api/auth/login (lines 377-416)
LoginDoc(body) ==
    /\ variant = "doc"
    /\ LET i == FindIndex(LAMBDA u : u.email = body.email)
       IN IF i = 0
          THEN /\ resp' = [op |-> "login", req |-> body, status |-> 401,
                           body |-> [error |-> "Invalid credentials"]]
               /\ UNCHANGED <<users, tokens, now, left>>
          ELSE IF body.password = ""                     \* bcrypt.compareSync(undefined) throws
          THEN /\ resp' = [op |-> "login", req |-> body, status |-> 500,
                           body |-> [error |-> "Server error"]]
               /\ UNCHANGED <<users, tokens, now, left>>
          ELSE IF ~comparePassword(body.password, users[i].passwordHash)
          THEN /\ resp' = [op |-> "login", req |-> body, status |-> 401,
                           body |-> [error |-> "Invalid credentials"]]
               /\ UNCHANGED <<users, tokens, now, left>>
          ELSE /\ left > 0
               /\ left' = left - 1
               /\ now' = now + 1
               /\ users' = [users EXCEPT ![i].lastLogin = now + 1]
               /\ tokens' = tokens \cup {SignToken(users[i].userId)}
               /\ resp' = [op |-> "login", req |-> body, status |-> 200,
                           body |-> [token |-> SignToken(users[i].userId),
                                     user |-> SnapshotDoc(users'[i])]]
    /\ UNCHANGED <<variant, pending, nextId, ledger>>

\* GET /api/user/profile/:userId (lines 470-485); the route checks no token
GetProfileDoc(userId) ==
    /\ variant = "doc"
    /\ LET i == FindIndex(LAMBDA u : u.userId = userId)
           req == [userId |-> userId]
       IN resp' = IF i = 0
                  THEN [op |-> "profile", req |-> req, status |-> 404,
                        body |-> [error |-> "User not found"]]
                  ELSE [op |-> "profile", req |-> req, status |-> 200,
                        body |-> [user |-> SnapshotDoc(users[i])]]
    /\ UNCHANGED <<variant, users, pending, nextId, tokens, ledger, now, left>>

\* verifyToken and GET /api/user/protected (lines 536-555)
ProtectedDoc(token) ==
    /\ variant = "doc"
    /\ LET req == [token |-> token]
       IN resp' = IF token = NoToken
                  THEN [op |-> "protected", req |-> req, status |-> 401,
                        body |-> [error |-> "No token provided"]]
                  ELSE IF VerifyOk(token)
                  THEN [op |-> "protected", req |-> req, status |-> 200,
                        body |-> [message |-> "Protected data", user |-> token]]
                  ELSE [op |-> "protected", req |-> req, status |-> 401,
                        body |-> [error |-> "Invalid token"]]
    /\ UNCHANGED <<variant, users, pending, nextId, tokens, ledger, now, left>>

\* { $set: updates } (line 493) and user[key] = stats[key] for the keys in user (lines 521-525)
SetFields(user, updates) ==
    [k \in DOMAIN user |-> IF k \in DOMAIN updates THEN updates[k] ELSE user[k]]

\* PUT /api/user/update/:userId (lines 488-508)
UpdateProfileDoc(userId, updates) ==
    /\ variant = "doc"
    /\ LET i == FindIndex(LAMBDA u : u.userId = userId)
           req == [userId |-> userId, updates |-> updates]
       IN IF i = 0
          THEN /\ resp' = [op |-> "update", req |-> req, status |-> 404,
                           body |-> [error |-> "User not found"]]
               /\ UNCHANGED <<users, left>>
          ELSE IF ~UniqueDoc([users EXCEPT ![i] = SetFields(@, updates)])
          THEN /\ resp' = [op |-> "update", req |-> req, status |-> 500,
                           body |-> [error |-> "Server error"]]
               /\ UNCHANGED <<users, left>>
          ELSE /\ left > 0
               /\ left' = left - 1
               /\ users' = [users EXCEPT ![i] = SetFields(@, updates)]
               /\ resp' = [op |-> "update", req |-> req, status |-> 200,
                           body |-> [user |-> SnapshotDoc(users'[i])]]
    /\ UNCHANGED <<variant, pending, nextId, tokens, ledger, now>>

\* POST /api/user/stats (lines 511-533)
UpdateStatsDoc(userId, stats) ==
    /\ variant = "doc"
    /\ LET i == FindIndex(LAMBDA u : u.userId = userId)
           req == [userId |-> userId, stats |-> stats]
       IN IF i = 0
          THEN /\ resp' = [op |-> "stats", req |-> req, status |-> 404,
                           body |-> [error |-> "User not found"]]
               /\ UNCHANGED <<users, left>>
          ELSE IF ~UniqueDoc([users EXCEPT ![i] = SetFields(@, stats)])
          THEN /\ resp' = [op |-> "stats", req |-> req, status |-> 500,
                           body |-> [error |-> "Server error"]]
               /\ UNCHANGED <<users, left>>
          ELSE /\ left > 0
               /\ left' = left - 1
               /\ users' = [users EXCEPT ![i] = SetFields(@, stats)]
               /\ resp' = [op |-> "stats", req |-> req, status |-> 200,
                           body |-> [success |-> TRUE]]
    /\ UNCHANGED <<variant, pending, nextId, tokens, ledger, now>>

----------------------------------------------------------------------------
(* The relational server, lines 562-1087 *)

\* the row INSERT INTO users makes (lines 767-778) with the column defaults of lines 629-648;
\* last_login has no default: 0 stands for NULL
NewUserSql(id, username, email, password_hash, display_name) ==
    [id |-> id,
     username |-> username,
     email |-> email,
     password_hash |-> password_hash,
     display_name |-> display_name,
     coins |-> InitialCoins,
     diamonds |-> InitialDiamonds,
     level |-> InitialLevel,
     total_wins |-> 0,
     total_losses |-> 0,
     total_draws |-> 0,
     experience_points |-> 0,
     is_developer |-> FALSE,
     last_login |-> 0]

\* RETURNING / SELECT id, username, email, display_name, coins, diamonds, level (lines 769, 782)
ReturningSql(row) ==
    [k \in {"id", "username", "email", "display_name", "coins", "diamonds", "level"} |-> row[k]]

\* const { password_hash, ...userWithoutPassword } = user (line 865)
WithoutPasswordSql(row) ==
    [k \in DOMAIN row \ {"password_hash"} |-> row[k]]

\* the UNIQUE constraints of the users table (lines 630-632) accept the table
UniqueSql(table) ==
    \A i, j \in 1..Len(table) :
        i /= j => /\ table[i].id /= table[j].id
                  /\ table[i].username /= table[j].username
                  /\ table[i].email /= table[j].email

\* POST /api/register up to the hashing await (lines 719-759)
RegisterBeginSql(body) ==
    /\ variant = "sql"
    /\ LET Reject(error) ==
               /\ resp' = [op |-> "register", req |-> body, status |-> 400,
                           body |-> [error |-> error]]
               /\ UNCHANGED pending
       IN IF body.username = "" \/ body.email = "" \/ body.password = ""
          THEN Reject("All fields required")
          ELSE IF Len(body.username) < MinUsernameLen
          THEN Reject("Username must be at least 3 characters")
          ELSE IF Len(body.password) < MinPasswordLen
          THEN Reject("Password must be at least 6 characters")
          ELSE IF \E i \in 1..Len(users) :
                      users[i].username = body.username \/ users[i].email = body.email
          THEN Reject("Username or email already exists")
          ELSE /\ Len(users) + BagCardinality(pending) < MaxUsers
               /\ pending' = pending (+) SetToBag({body})
               /\ UNCHANGED resp
    /\ UNCHANGED <<variant, users, nextId, tokens, ledger, now, left>>

\* POST /api/register from the INSERT to the response (lines 760-805)
RegisterFinishSql(body) ==
    /\ variant = "sql"
    /\ BagIn(body, pending)
    /\ pending' = pending (-) SetToBag({body})
    /\ LET newUser == NewUserSql(nextId, body.username, body.email, hashPassword(body.password),
                                 IF body.displayName /= "" THEN body.displayName
                                                           ELSE body.username)
           token == SignToken(newUser.id)
       IN IF ~UniqueSql(Append(users, newUser))
          THEN /\ resp' = [op |-> "register", req |-> body, status |-> 500,
                           body |-> [error |-> "Server error during registration"]]
               /\ UNCHANGED <<users, ledger, tokens, nextId>>
          ELSE /\ users' = Append(users, newUser)
               /\ ledger' = Append(ledger, NoGames)
               /\ tokens' = tokens \cup {token}
               /\ nextId' = nextId + 1
               /\ resp' = [op |-> "register", req |-> body, status |-> 200,
                           body |-> [success |-> TRUE, token |-> token,
                                     user |-> ReturningSql(newUser)]]
    /\ UNCHANGED <<variant, now, left>>

\* POST /api/login (lines 808-877); the body names the identity "username"
LoginSql(body) ==
    /\ variant = "sql"
    /\ LET i == FindIndex(LAMBDA u : u.username = body.email \/ u.email = body.email)
       IN IF body.email = "" \/ body.password = ""
          THEN /\ resp' = [op |-> "login", req |-> body, status |-> 400,
                           body |-> [error |-> "Username and password required"]]
               /\ UNCHANGED <<users, tokens, now, left>>
          ELSE IF i = 0
          THEN /\ resp' = [op |-> "login", req |-> body, status |-> 401,
                           body |-> [error |-> "Invalid credentials"]]
               /\ UNCHANGED <<users, tokens, now, left>>
          ELSE IF ~comparePassword(body.password, users[i].password_hash)
          THEN /\ resp' = [op |-> "login", req |-> body, status |-> 401,
                           body |-> [error |-> "Invalid credentials"]]
               /\ UNCHANGED <<users, tokens, now, left>>
          ELSE /\ left > 0
               /\ left' = left - 1
               /\ now' = now + 1
               /\ users' = [users EXCEPT ![i].last_login = now + 1]
               /\ tokens' = tokens \cup {SignToken(users[i].id)}
               /\ resp' = [op |-> "login", req |-> body, status |-> 200,
                           body |-> [success |-> TRUE, token |-> SignToken(users[i].id),
                                     user |-> WithoutPasswordSql(users[i])]]
    /\ UNCHANGED <<variant, pending, nextId, ledger>>

\* SELECT id, username, email, display_name, coins, diamonds, level, total_wins, total_losses,
\* total_draws, created_at, last_login, guild_id, country, avatar_url (lines 898-900): the
\* columns of the list that the rows of this model carry
ProfileSql(row) ==
    [k \in {"id", "username", "email", "display_name", "coins", "diamonds", "level",
             "total_wins", "total_losses", "total_draws", "last_login"} |-> row[k]]

\* GET /api/profile/:userId (lines 880-930)
GetProfileSql(token, userId) ==
    /\ variant = "sql"
    /\ LET i == FindIndex(LAMBDA u : u.id = userId)
           req == [token |-> token, userId |-> userId]
       IN resp' = IF token = NoToken
                  THEN [op |-> "profile", req |-> req, status |-> 401,
                        body |-> [error |-> "No token provided"]]
                  ELSE IF ~VerifyOk(token)
                  THEN IF VerifyError(token) = "JsonWebTokenError"
                       THEN [op |-> "profile", req |-> req, status |-> 401,
                             body |-> [error |-> "Invalid token"]]
                       ELSE [op |-> "profile", req |-> req, status |-> 500,
                             body |-> [error |-> "Server error"]]
                  ELSE IF i = 0
                  THEN [op |-> "profile", req |-> req, status |-> 404,
                        body |-> [error |-> "User not found"]]
                  ELSE [op |-> "profile", req |-> req, status |-> 200,
                        body |-> [success |-> TRUE, user |-> ProfileSql(users[i])]]
    /\ UNCHANGED <<variant, users, pending, nextId, tokens, ledger, now, left>>

\* JavaScript's a || b on numbers: b when a is 0 (or missing)
OrDefault(a, b) == IF a = 0 THEN b ELSE a

\* ApplyResultSql whose CASE leaves out the level = $3 test: every win below 50 levels up
ApplyResultSqlAnyWin(row, won, level, coins_earned, diamonds_earned) ==
    IF won
    THEN [row EXCEPT
            !.total_wins = @ + 1,
            !.coins = @ + OrDefault(coins_earned, DefaultWinCoins),
            !.diamonds = @ + OrDefault(diamonds_earned, DefaultWinDiamonds),
            !.level = IF row.level < LevelCap THEN @ + 1 ELSE @]
    ELSE [row EXCEPT
            !.total_losses = @ + 1,
            !.coins = @ + OrDefault(coins_earned, DefaultLossCoins),
            !.diamonds = @ + OrDefault(diamonds_earned, DefaultLossDiamonds)]

\* the row after the UPDATE statements of lines 951-991
ApplyResultSql(row, won, level, coins_earned, diamonds_earned) ==
    IF won
    THEN [row EXCEPT
            !.total_wins = @ + 1,
            !.coins = @ + OrDefault(coins_earned, DefaultWinCoins),
            !.diamonds = @ + OrDefault(diamonds_earned, DefaultWinDiamonds),
            !.level = IF row.level = level /\ row.level < LevelCap THEN @ + 1 ELSE @]
    ELSE [row EXCEPT
            !.total_losses = @ + 1,
            !.coins = @ + OrDefault(coins_earned, DefaultLossCoins),
            !.diamonds = @ + OrDefault(diamonds_earned, DefaultLossDiamonds)]

\* POST /api/game/result (lines 933-1000); outcome is how the game ended, of which the
\* body carries won and nothing else (line 936)
GameResultSql(token, userId, outcome, won, level, coins_earned, diamonds_earned) ==
    /\ variant = "sql"
    /\ LET i == FindIndex(LAMBDA u : u.id = userId)
           req == [token |-> token, userId |-> userId, outcome |-> outcome,
                   win |-> won, level |-> level,
                   coinsEarned |-> coins_earned, diamondsEarned |-> diamonds_earned]
       IN IF token = NoToken
          THEN /\ resp' = [op |-> "gameResult", req |-> req, status |-> 401,
                           body |-> [error |-> "No token provided"]]
               /\ UNCHANGED <<users, ledger, left>>
          ELSE IF ~VerifyOk(token)
          THEN /\ resp' = [op |-> "gameResult", req |-> req, status |-> 500,
                           body |-> [error |-> "Server error"]]
               /\ UNCHANGED <<users, ledger, left>>
          ELSE IF i = 0                       \* the UPDATE matches no row
          THEN /\ resp' = [op |-> "gameResult", req |-> req, status |-> 200,
                           body |-> [success |-> TRUE]]
               /\ UNCHANGED <<users, ledger, left>>
          ELSE /\ left > 0
               /\ left' = left - 1
               /\ users' = [users EXCEPT
                              ![i] = ApplyResultSql(@, won, level, coins_earned, diamonds_earned)]
               /\ ledger' = Played(i, coins_earned, diamonds_earned)
               /\ resp' = [op |-> "gameResult", req |-> req, status |-> 200,
                           body |-> [success |-> TRUE]]
    /\ UNCHANGED <<variant, pending, nextId, tokens, now>>

----------------------------------------------------------------------------
(* The requests a client may send *)

RegisterBodies ==
    { [username |-> "alice", email |-> "a@x.io", password |-> "secret1", displayName |-> ""],
      [username |-> "bobby", email |-> "b@x.io", password |-> "secret2", displayName |-> "Neo"],
      [username |-> "alice", email |-> "b@x.io", password |-> "secret2", displayName |-> ""],
      [username |-> "al", email |-> "c@x.io", password |-> "pw", displayName |-> ""],
      [username |-> "carol", email |-> "c@x.io", password |-> "", displayName |-> ""] }

LoginBodies ==
    { [email |-> "a@x.io", password |-> "secret1"],
      [email |-> "a@x.io", password |-> "secret2"],
      [email |-> "b@x.io", password |-> "secret2"],
      [email |-> "alice", password |-> "secret1"],
      [email |-> "c@x.io", password |-> "secret1"],
      [email |-> "a@x.io", password |-> ""] }

UpdateBodies ==
    { [displayName |-> "Neo"],
      [avatarUrl |-> "naga.png", country |-> "Laos", guildName |-> "Naga"],
      [coins |-> -5, passwordHash |-> "x"],
      [currentLevel |-> 60],
      [username |-> "alice"] }

\* the token a request may carry: none, one the server issued, or one signed with another key
TokenInputs == tokens \cup {NoToken, ForgedToken(1)}

\* the values of win a client can send for a game that ended in outcome: the body says
\* whether the game was won and nothing more, so a drawn game is sent as either
WinReported(outcome) ==
    CASE outcome = "Win" -> {TRUE}
      [] outcome = "Loss" -> {FALSE}
      [] outcome = "Draw" -> BOOLEAN

\* a decided game, as the client that sends win for it played it
Ended(win) == IF win THEN "Win" ELSE "Loss"

\* game outcomes a client reports: <<win, level, coinsEarned, diamondsEarned>>
GameInputs == { <<TRUE, 1, 50, 1>>, <<FALSE, 1, -2000, -20>>, <<TRUE, 2, 0, 0>> }

Init ==
    /\ variant \in {"mem", "doc", "sql"}
    /\ users = <<>>
    /\ pending = EmptyBag
    /\ nextId = 1
    /\ tokens = {}
    /\ resp = [op |-> "none", req |-> [none |-> TRUE], status |-> 0, body |-> [none |-> TRUE]]
    /\ ledger = <<>>
    /\ now = 0
    /\ left = MaxOps

Next ==
    \/ \E body \in RegisterBodies : RegisterBeginMem(body)
    \/ \E body \in BagToSet(pending) : RegisterFinishMem(body)
    \/ \E body \in LoginBodies : LoginMem(body)
    \/ \E userId \in UserIds, updates \in UpdateBodies : UpdateProfileMem(userId, updates)
    \/ \E token \in TokenInputs, userId \in UserIds, g \in GameInputs :
          GameResultMem(token, userId, Ended(g[1]), g[1], g[2], g[3], g[4])
    \/ \E body \in RegisterBodies : RegisterBeginDoc(body)
    \/ \E body \in BagToSet(pending) : RegisterFinishDoc(body)
    \/ \E body \in LoginBodies : LoginDoc(body)
    \/ \E userId \in UserIds, updates \in UpdateBodies : UpdateProfileDoc(userId, updates)
    \/ \E userId \in UserIds, stats \in UpdateBodies : UpdateStatsDoc(userId, stats)
    \/ \E body \in RegisterBodies : RegisterBeginSql(body)
    \/ \E body \in BagToSet(pending) : RegisterFinishSql(body)
    \/ \E body \in LoginBodies : LoginSql(body)
    \/ \E token \in TokenInputs, userId \in UserIds, g \in GameInputs :
          GameResultSql(token, userId, Ended(g[1]), g[1], g[2], g[3], g[4])

Spec == Init /\ [][Next]_vars

----------------------------------------------------------------------------
(* Registration alone: the register requests of the three servers, in any interleaving *)

NextRegister ==
    \/ \E body \in RegisterBodies : RegisterBeginMem(body)
    \/ \E body \in BagToSet(pending) : RegisterFinishMem(body)
    \/ \E body \in RegisterBodies : RegisterBeginDoc(body)
    \/ \E body \in BagToSet(pending) : RegisterFinishDoc(body)
    \/ \E body \in RegisterBodies : RegisterBeginSql(body)
    \/ \E body \in BagToSet(pending) : RegisterFinishSql(body)

SpecRegister == Init /\ [][NextRegister]_vars

----------------------------------------------------------------------------
(* The ledger alone: game results on a store that already holds two accounts, *)
(* the first of them after a run of wins at its current level.                *)

\* wins the first account has behind it when the run starts
StartWins == {0, 48}

\* a win at the account's current level that earns <<50, 1>>
FrontierWinMem(u) == ApplyResultMem(u, TRUE, u.currentLevel, 50, 1)

FrontierWinSql(row) == ApplyResultSql(row, TRUE, row.level, 50, 1)

\* the in-memory account after k such wins; the accounts after 16 and 32 are worked out once
RECURSIVE AfterWinsMem(_)

AfterWinsMem16 == FrontierWinMem(AfterWinsMem(15))

AfterWinsMem32 == FrontierWinMem(AfterWinsMem(31))

AfterWinsMem(k) ==
    CASE k = 0 -> NewUserMem(1, "alice", "a@x.io", hashPassword("secret1"), "", 1)
      [] k = 16 -> AfterWinsMem16
      [] k = 32 -> AfterWinsMem32
      [] OTHER -> FrontierWinMem(AfterWinsMem(k - 1))

\* the relational row after k such wins
RECURSIVE AfterWinsSql(_)

AfterWinsSql16 == FrontierWinSql(AfterWinsSql(15))

AfterWinsSql32 == FrontierWinSql(AfterWinsSql(31))

AfterWinsSql(k) ==
    CASE k = 0 -> NewUserSql(1, "alice", "a@x.io", hashPassword("secret1"), "alice")
      [] k = 16 -> AfterWinsSql16
      [] k = 32 -> AfterWinsSql32
      [] OTHER -> FrontierWinSql(AfterWinsSql(k - 1))

InitLedger ==
    /\ variant \in {"mem", "sql"}
    /\ now = 2
    /\ \E k \in StartWins :
          /\ users = IF variant = "mem"
                     THEN <<AfterWinsMem(k),
                            NewUserMem(2, "bobby", "b@x.io", hashPassword("secret2"), "Neo", 2)>>
                     ELSE <<AfterWinsSql(k),
                            NewUserSql(2, "bobby", "b@x.io", hashPassword("secret2"), "Neo")>>
          /\ ledger = <<[games |-> k, coins |-> 50 * k, diamonds |-> k], NoGames>>
    /\ pending = EmptyBag
    /\ nextId = 3
    /\ tokens = {SignToken(1), SignToken(2)}
    /\ resp = [op |-> "none", req |-> [none |-> TRUE], status |-> 0, body |-> [none |-> TRUE]]
    /\ left = MaxGames

\* the level of the account a request names: currentLevel, or the level column
LevelOf(u) == IF variant = "sql" THEN u.level ELSE u.currentLevel

\* the levels a client reports for an account: none, its current one, the next one, the last one
LevelInputs(userId) ==
    {0, LevelCap} \cup
    UNION { {LevelOf(users[i]), LevelOf(users[i]) + 1} :
            i \in {j \in 1..Len(users) : j = userId} }

NextLedger ==
    \/ \E userId \in 1..(Len(users) + 1), win \in BOOLEAN, e \in Earned :
          \E level \in LevelInputs(userId) :
              GameResultMem(SignToken(userId), userId, Ended(win), win, level, e[1], e[2])
    \/ \E userId \in 1..(Len(users) + 1), win \in BOOLEAN, e \in Earned :
          \E level \in LevelInputs(userId) :
              GameResultSql(SignToken(userId), userId, Ended(win), win, level, e[1], e[2])

SpecLedger == InitLedger /\ [][NextLedger]_vars

----------------------------------------------------------------------------
(* The outcomes alone: won, lost and drawn games reported for the two accounts of the ledger *)

NextOutcome ==
    \/ \E userId \in 1..(Len(users) + 1), outcome \in Outcomes :
          \E win \in WinReported(outcome), level \in LevelInputs(userId) :
              GameResultMem(SignToken(userId), userId, outcome, win, level, 50, 1)
    \/ \E userId \in 1..(Len(users) + 1), outcome \in Outcomes :
          \E win \in WinReported(outcome), level \in LevelInputs(userId) :
              GameResultSql(SignToken(userId), userId, outcome, win, level, 50, 1)

SpecOutcome == InitLedger /\ [][NextOutcome]_vars

----------------------------------------------------------------------------
(* The account snapshots alone: the requests that answer with an account *)

NextProfile ==
    \/ \E body \in RegisterBodies : RegisterBeginMem(body)
    \/ \E body \in BagToSet(pending) : RegisterFinishMem(body)
    \/ \E body \in LoginBodies : LoginMem(body)
    \/ \E userId \in UserIds : GetProfileMem(userId)
    \/ \E userId \in UserIds, updates \in UpdateBodies : UpdateProfileMem(userId, updates)
    \/ \E body \in RegisterBodies : RegisterBeginDoc(body)
    \/ \E body \in BagToSet(pending) : RegisterFinishDoc(body)
    \/ \E body \in LoginBodies : LoginDoc(body)
    \/ \E userId \in UserIds : GetProfileDoc(userId)
    \/ \E userId \in UserIds, updates \in UpdateBodies : UpdateProfileDoc(userId, updates)
    \/ \E body \in RegisterBodies : RegisterBeginSql(body)
    \/ \E body \in BagToSet(pending) : RegisterFinishSql(body)
    \/ \E body \in LoginBodies : LoginSql(body)
    \/ \E token \in TokenInputs, userId \in UserIds : GetProfileSql(token, userId)

SpecProfile == Init /\ [][NextProfile]_vars

----------------------------------------------------------------------------
(* The sessions alone: tokens presented to the routes that verify them, on a store that  *)
(* holds two accounts, while the days pass.  The in-memory server verifies no token.     *)

\* no request is being answered
Idle == [op |-> "none", req |-> [none |-> TRUE], status |-> 0, body |-> [none |-> TRUE]]

\* a day passes; the last response was delivered on an earlier day
Tick ==
    /\ now < MaxNow
    /\ now' = now + 1
    /\ resp' = Idle
    /\ UNCHANGED <<variant, users, pending, nextId, tokens, ledger, left>>

InitSession ==
    /\ variant \in {"doc", "sql"}
    /\ now = 2
    /\ users = IF variant = "doc"
               THEN <<NewUserDoc(1, "alice", "a@x.io", hashPassword("secret1"), "", 1),
                      NewUserDoc(2, "bobby", "b@x.io", hashPassword("secret2"), "Neo", 2)>>
               ELSE <<NewUserSql(1, "alice", "a@x.io", hashPassword("secret1"), "alice"),
                      NewUserSql(2, "bobby", "b@x.io", hashPassword("secret2"), "Neo")>>
    /\ ledger = <<NoGames, NoGames>>
    /\ pending = EmptyBag
    /\ nextId = 3
    /\ tokens = {SignToken(2)}
    /\ resp = [op |-> "none", req |-> [none |-> TRUE], status |-> 0, body |-> [none |-> TRUE]]
    /\ left = MaxOps

\* the token a request may carry: none, one that is no JWT, one signed with another key, or
\* one the server issued
SessionTokens == tokens \cup {NoToken, MalformedToken, ForgedToken(1)}

\* the logins of the first account, with its password and with another
SessionLogins ==
    { [email |-> "a@x.io", password |-> "secret1"],
      [email |-> "a@x.io", password |-> "secret2"] }

NextSession ==
    \/ Tick
    \/ \E body \in SessionLogins : LoginDoc(body)
    \/ \E token \in SessionTokens : ProtectedDoc(token)
    \/ \E body \in SessionLogins : LoginSql(body)
    \/ \E token \in SessionTokens, userId \in UserIds : GetProfileSql(token, userId)
    \/ \E token \in SessionTokens : GameResultSql(token, token.userId, "Win", TRUE, 1, 50, 1)

SpecSession == InitSession /\ [][NextSession]_vars

----------------------------------------------------------------------------
(* The replay alone: game results of the in-memory server on an account that has been *)
(* further than it stands, currentLevel 3 and highestLevel 5                          *)

\* a new account after a win at level 5, one at level 1 and one at level 2, none of which
\* earned anything
ReplayAccount ==
    LET new == NewUserMem(1, "alice", "a@x.io", hashPassword("secret1"), "", 1)
        ahead == ApplyResultMem(new, TRUE, 5, 0, 0)
        second == ApplyResultMem(ahead, TRUE, 1, 0, 0)
    IN ApplyResultMem(second, TRUE, 2, 0, 0)

\* the levels the client reports: none, the account's, the one after it, the highest it
\* reached and the one after that
ReplayLevels == {0, 3, 4, 5, 6}

InitReplay ==
    /\ variant = "mem"
    /\ now = 1
    /\ users = <<ReplayAccount>>
    /\ ledger = <<[games |-> 3, coins |-> 0, diamonds |-> 0]>>
    /\ pending = EmptyBag
    /\ nextId = 2
    /\ tokens = {SignToken(1)}
    /\ resp = [op |-> "none", req |-> [none |-> TRUE], status |-> 0, body |-> [none |-> TRUE]]
    /\ left = MaxGames

NextReplay ==
    \E userId \in 1..(Len(users) + 1), win \in BOOLEAN, level \in ReplayLevels, e \in Earned :
        GameResultMem(SignToken(userId), userId, Ended(win), win, level, e[1], e[2])

SpecReplay == InitReplay /\ [][NextReplay]_vars

----------------------------------------------------------------------------
(* Properties *)

\* the account a game-result request names was stored when the request was handled
Target(i) == i \in 1..Len(users) /\ (IF variant = "sql" THEN users[i].id ELSE users[i].userId) = resp.req.userId

\* the last request was a game result the server applied to account i
AppliedTo(i) == resp.op = "gameResult" /\ resp.status = 200 /\ Target(i)

\* C1: in every reachable state every account's coins and diamonds are >= 0.
C1_CurrencyNonNegative ==
    \A i \in 1..Len(users) : users[i].coins >= 0 /\ users[i].diamonds >= 0

\* C2: in every reachable state every account has highestLevel >= currentLevel, also after a
\* new account wins at its current level (stated for the in-memory server, which the claim names).
C2_HighestAtLeastCurrent ==
    variant = "mem" => \A i \in 1..Len(users) : users[i].highestLevel >= users[i].currentLevel

\* C3: no sequence of game results drives an account's current level out of 1..50.
C3_CurrentLevelInRange ==
    \A i \in 1..Len(users) : LevelOf(users[i]) \in 1..LevelCap

\* C3 witness: a win reported at level 50 was applied to an account that stands at level 50.
C3_Witness ==
    \E i \in 1..Len(users) :
        /\ AppliedTo(i)
        /\ resp.req.win /\ resp.req.level = LevelCap
        /\ LevelOf(users[i]) = LevelCap
        /\ ledger[i].games >= LevelCap

\* C4: no two stored accounts share a username or share an email, whatever the interleaving
\* of concurrent registrations.
C4_UniqueIdentities ==
    \A i, j \in 1..Len(users) :
        i /= j => users[i].username /= users[j].username /\ users[i].email /= users[j].email

\* C5: game results lose no update: every account's counters and currency are the initial
\* ones plus the sum of what the accepted submissions reported.
C5_NoLostUpdate ==
    \A i \in 1..Len(users) :
        /\ ledger[i].games = IF variant = "sql"
                             THEN users[i].total_wins + users[i].total_losses
                             ELSE users[i].totalWins + users[i].totalLosses
        /\ users[i].coins = InitialCoins + ledger[i].coins
        /\ users[i].diamonds = InitialDiamonds + ledger[i].diamonds
\* C6: a game result raises the current level by exactly 1 when it is a win reported at the
\* account's current level below 50, and leaves the current level unchanged in every other case.
C6_LevelUpIff ==
    [][\A i \in 1..Len(users) :
          LevelOf(users'[i]) =
              IF /\ ledger'[i].games = ledger[i].games + 1
                 /\ resp'.req.win
                 /\ resp'.req.level = LevelOf(users[i])
                 /\ LevelOf(users[i]) < LevelCap
              THEN LevelOf(users[i]) + 1
              ELSE LevelOf(users[i])]_vars

\* C6 witness: the second account, new at level 1, won its first game at level 1 and is at level 2.
C6_Witness ==
    /\ AppliedTo(2)
    /\ ledger[2].games = 1
    /\ resp.req.win /\ resp.req.level = InitialLevel
    /\ LevelOf(users[2]) = InitialLevel + 1

\* C7: a game result that reports a negative coinsEarned or diamondsEarned is rejected with a
\* failure and changes no field of any account.
C7_NegativeEarnedRejected ==
    [][(/\ resp'.op = "gameResult"
        /\ (resp'.req.coinsEarned < 0 \/ resp'.req.diamondsEarned < 0))
       => (users' = users /\ resp'.status >= 400)]_vars

\* C8: a game result changes an account only when the request carries a token the server
\* issued for that same account.
C8_ResultNeedsOwnToken ==
    [][(resp'.op = "gameResult" /\ users' /= users)
       => (resp'.req.token \in tokens /\ resp'.req.token.userId = resp'.req.userId)]_vars

\* the name a ledger field has in the deployed server's records
FieldName(name) ==
    IF variant /= "sql" THEN name
    ELSE CASE name = "currentLevel" -> "level"
           [] name = "highestLevel" -> "highest_level"
           [] name = "totalWins" -> "total_wins"
           [] name = "totalLosses" -> "total_losses"
           [] name = "totalDraws" -> "total_draws"
           [] name = "experiencePoints" -> "experience_points"
           [] OTHER -> name

\* the values the claim gives a new account
RegisterDefaults ==
    [coins |-> InitialCoins, diamonds |-> InitialDiamonds,
     currentLevel |-> InitialLevel, highestLevel |-> InitialLevel,
     totalWins |-> 0, totalLosses |-> 0, totalDraws |-> 0, experiencePoints |-> 0]

\* the last request was a registration that succeeded
Registered == resp.op = "register" /\ resp.status \in {200, 201}

\* record r carries ledger field `name` with the value a new account has
HasDefault(r, name) ==
    FieldName(name) \in DOMAIN r /\ r[FieldName(name)] = RegisterDefaults[name]

C10_DuplicateNamesField ==
    (/\ resp.op = "register"
     /\ resp.status = 400
     /\ resp.req.username /= "" /\ resp.req.email /= "" /\ resp.req.password /= ""
     /\ Len(resp.req.username) >= MinUsernameLen /\ Len(resp.req.password) >= MinPasswordLen)
    => LET dupUsername == \E i \in 1..Len(users) : users[i].username = resp.req.username
           dupEmail == \E i \in 1..Len(users) : users[i].email = resp.req.email
       IN /\ dupUsername \/ dupEmail
          /\ resp.body.error \in
                 (IF dupUsername THEN {"Username already taken"} ELSE {}) \cup
                 (IF dupEmail THEN {"Email already registered"} ELSE {})

\* the counter the ledger keeps for an outcome
CounterOf(outcome) ==
    CASE outcome = "Win" -> "totalWins"
      [] outcome = "Loss" -> "totalLosses"
      [] outcome = "Draw" -> "totalDraws"

\* the step applies a game result to account i
Applies(i) == i \in 1..Len(users) /\ ledger'[i].games = ledger[i].games + 1

\* C11: every accepted game result adds 1 to the counter of the game's outcome (totalWins for
\* a win, totalLosses for a loss, totalDraws for a draw) and leaves the other two as they were.
C11_CounterMatchesOutcome ==
    [][\A i \in 1..Len(users) : \A o \in Outcomes :
          users'[i][FieldName(CounterOf(o))] =
              users[i][FieldName(CounterOf(o))]
                  + (IF Applies(i) /\ resp'.req.outcome = o THEN 1 ELSE 0)]_vars

\* C12: every accepted game result adds exactly 100 experience points on a win and exactly 25
\* on a loss, and experience points are non-negative and never decrease.
C12_ExperienceAdded ==
    [][\A i \in 1..Len(users) :
          LET xp == users[i][FieldName("experiencePoints")]
              xpAfter == users'[i][FieldName("experiencePoints")]
          IN /\ xp >= 0 /\ xpAfter >= xp
             /\ Applies(i) => xpAfter = xp + (IF resp'.req.win THEN XpWin ELSE XpLoss)]_vars

\* the larger of two levels
Max(a, b) == IF a >= b THEN a ELSE b

\* C13: an accepted game result leaves highestLevel at max(old highestLevel, level played) on
\* a win and at the old highestLevel otherwise, so that no step lowers an account's highestLevel
\* (stated for the in-memory server, the one whose game results keep a highestLevel).
C13_HighestLevelIsMax ==
    [][variant = "mem" =>
          \A i \in 1..Len(users) :
              /\ users'[i].highestLevel >= users[i].highestLevel
              /\ users'[i].highestLevel =
                     IF Applies(i) /\ resp'.req.win
                     THEN Max(users[i].highestLevel, resp'.req.level)
                     ELSE users[i].highestLevel]_vars

\* C13 witness: the account whose highestLevel was 5 won at level 6 and then at a level below
\* it, and its highestLevel is still 6.
C13_Witness ==
    /\ variant = "mem"
    /\ AppliedTo(1)
    /\ ledger[1].games = 5
    /\ resp.req.win /\ resp.req.level \in 1..5
    /\ users[1].highestLevel = 6

\* the account a request names is not stored
Unknown(userId) ==
    \A i \in 1..Len(users) :
        (IF variant = "sql" THEN users[i].id ELSE users[i].userId) /= userId

\* C15: a game result or a profile update that names no stored account is answered with the
\* not-found failure, never with a success, and changes no account.
C15_UnknownAccountNotFound ==
    [][(/\ resp'.op \in {"gameResult", "update"}
        /\ Unknown(resp'.req.userId)
        /\ (resp'.op = "gameResult" /\ variant = "sql" => VerifyOk(resp'.req.token)))
       => (resp'.status = 404 /\ users' = users)]_vars

\* the fields a profile update may change
MutableFields == {"displayName", "avatarUrl", "country", "guildName"}

\* C14: a profile update changes at most displayName, avatarUrl, country and guildName of the
\* account it names; every other field and every other account is as it was, whatever keys the
\* request body carries.
C14_UpdateChangesDisplayFieldsOnly ==
    [][resp'.op = "update" =>
          /\ Len(users') = Len(users)
          /\ \A i \in 1..Len(users) :
                 /\ \A k \in DOMAIN users[i] \ MutableFields : users'[i][k] = users[i][k]
                 /\ users[i].userId /= resp'.req.userId => users'[i] = users[i]]_vars

\* the requests that answer with an account
SnapshotOps == {"register", "login", "profile", "update"}

\* C16: no response of register, login, profile retrieval or profile update carries an
\* account's password hash, whatever keys a profile update's body carried.
C16_NoPasswordHashInResponse ==
    resp.op \in SnapshotOps =>
        /\ {"passwordHash", "password_hash"} \cap DOMAIN resp.body = {}
        /\ "user" \in DOMAIN resp.body =>
               {"passwordHash", "password_hash"} \cap DOMAIN resp.body.user = {}

\* C16 witness: a profile update whose body carried a passwordHash key was answered with the
\* account.
C16_Witness ==
    /\ resp.op = "update" /\ resp.status = 200
    /\ "passwordHash" \in DOMAIN resp.req.updates
    /\ "user" \in DOMAIN resp.body

\* what a login is answered when no stored account has the identity it names: the checks
\* the handler makes before the lookup (lines 47-49, 812-814; the document-store login has
\* none), then the answer of if (!user)
UnknownIdentityAnswer(body) ==
    IF variant /= "doc" /\ (body.email = "" \/ body.password = "")
    THEN [status |-> 400,
          body |-> [error |-> IF variant = "mem" THEN "Email and password required"
                                                 ELSE "Username and password required"]]
    ELSE [status |-> 401, body |-> [error |-> "Invalid credentials"]]

\* C17: a login that fails is answered the same whether the identity is unknown or the
\* identity is known and the password is wrong: the status and the error are the ones an
\* unknown identity gets, so that the answer does not tell whether the account exists.
C17_FailedLoginsLookAlike ==
    (resp.op = "login" /\ resp.status /= 200) =>
        [status |-> resp.status, body |-> resp.body] = UnknownIdentityAnswer(resp.req)

\* the last request went through a route that verifies the token it carries; it was handled
\* on the day the clock shows
Verified ==
    \/ resp.op = "protected"
    \/ resp.op = "profile" /\ variant = "sql"
    \/ resp.op = "gameResult" /\ variant = "sql"

\* C18: a token the server issued is accepted on every day before its expiry and is rejected
\* as a token that no longer holds, with the unauthorized status, on every day after it, so
\* that once rejected for expiry it is not accepted again.
C18_AcceptedUntilExpiry ==
    (Verified /\ resp.req.token \in tokens) =>
        /\ now < resp.req.token.exp => resp.status \in {200, 404}
        /\ now > resp.req.token.exp => resp.status = 401

\* a token jwt.verify accepts on day at
GoodOn(token, at) == token.sig = "ok" /\ at < token.exp

\* C19: token validation fails closed.  A request whose token is missing, malformed, wrongly
\* signed or expired is answered with a failure and nothing else: the protected route is not
\* entered, no profile is returned, and no game result is applied.
C19_FailsClosed ==
    [][/\ (Verified' /\ ~GoodOn(resp'.req.token, now'))
            => (resp'.status >= 400 /\ DOMAIN resp'.body = {"error"})
       /\ users' /= users
            => (Verified' /\ GoodOn(resp'.req.token, now)) \/ resp'.op = "login"]_vars

\* C19 witness: a token the server issued was presented after its expiry and refused.
C19_Witness ==
    /\ Verified
    /\ resp.req.token \in tokens
    /\ now > resp.req.token.exp
    /\ resp.status >= 400

\* C20: on an account with currentLevel 3 and highestLevel 5, a win at level 3 that earns 50
\* coins and 1 diamond gives currentLevel 4, highestLevel 5, one more win, 50 more coins, 1 more
\* diamond and 100 more experience points; a win at level 5 on the account as it then stands
\* leaves currentLevel at 4 and highestLevel at 5.
C20_ReplayExample ==
    [][\A i \in 1..Len(users) :
          LET old == users[i]
              new == users'[i]
              req == resp'.req
          IN /\ (/\ Applies(i)
                 /\ old.currentLevel = 3 /\ old.highestLevel = 5
                 /\ req.win /\ req.level = 3
                 /\ req.coinsEarned = 50 /\ req.diamondsEarned = 1)
                => (/\ new.currentLevel = 4 /\ new.highestLevel = 5
                    /\ new.totalWins = old.totalWins + 1
                    /\ new.totalLosses = old.totalLosses /\ new.totalDraws = old.totalDraws
                    /\ new.coins = old.coins + 50
                    /\ new.diamonds = old.diamonds + 1
                    /\ new.experiencePoints = old.experiencePoints + 100)
             /\ (/\ Applies(i)
                 /\ old.currentLevel = 4 /\ old.highestLevel = 5
                 /\ req.win /\ req.level = 5)
                => (new.currentLevel = 4 /\ new.highestLevel = 5)]_vars

\* C20 witness: the account that stood at currentLevel 3 and highestLevel 5 has had two more
\* results applied, the win at level 3 that earned 50 coins and 1 diamond and then a win at
\* level 5 that earned nothing, and stands at currentLevel 4 and highestLevel 5.
C20_Witness ==
    /\ AppliedTo(1)
    /\ ledger[1] = [games |-> 5, coins |-> 50, diamonds |-> 1]
    /\ resp.req.win /\ resp.req.level = 5 /\ resp.req.coinsEarned = 0
    /\ users[1].currentLevel = 4 /\ users[1].highestLevel = 5
    /\ users[1].totalWins = 5
    /\ users[1].coins = InitialCoins + 50 /\ users[1].diamonds = InitialDiamonds + 1
    /\ users[1].experiencePoints = 5 * XpWin

\* the account after the deployed server applies a game result to it
ApplyResult(u, win, level, coinsEarned, diamondsEarned) ==
    IF variant = "sql"
    THEN ApplyResultSql(u, win, level, coinsEarned, diamondsEarned)
    ELSE ApplyResultMem(u, win, level, coinsEarned, diamondsEarned)

\* the fields a game result adds to
Accrued == {"totalWins", "totalLosses", "totalDraws", "experiencePoints", "coins", "diamonds"}

----------------------------------------------------------------------------
(* The round trip alone: one client registers, then updates its profile, reports games *)
(* and logs in, in any order                                                            *)

\* the registration of the client
RoundTripRegisters ==
    { [username |-> "alice", email |-> "a@x.io", password |-> "secret1", displayName |-> ""] }

\* the profile updates it sends: a display name, and a body that carries ledger fields
RoundTripUpdates ==
    { [displayName |-> "Neo"],
      [coins |-> -5, passwordHash |-> "x"] }

InitRoundTrip ==
    /\ variant \in {"mem", "doc", "sql"}
    /\ users = <<>>
    /\ pending = EmptyBag
    /\ nextId = 1
    /\ tokens = {}
    /\ resp = Idle
    /\ ledger = <<>>
    /\ now = 0
    /\ left = MaxGames

NextRoundTrip ==
    \/ \E body \in RoundTripRegisters : RegisterBeginMem(body)
    \/ \E body \in BagToSet(pending) : RegisterFinishMem(body)
    \/ \E body \in LoginBodies : LoginMem(body)
    \/ \E updates \in RoundTripUpdates : UpdateProfileMem(1, updates)
    \/ GameResultMem(NoToken, 1, "Win", TRUE, 1, 50, 1)
    \/ \E body \in RoundTripRegisters : RegisterBeginDoc(body)
    \/ \E body \in BagToSet(pending) : RegisterFinishDoc(body)
    \/ \E body \in LoginBodies : LoginDoc(body)
    \/ \E updates \in RoundTripUpdates : UpdateProfileDoc(1, updates)
    \/ \E stats \in RoundTripUpdates : UpdateStatsDoc(1, stats)
    \/ \E body \in RoundTripRegisters : RegisterBeginSql(body)
    \/ \E body \in BagToSet(pending) : RegisterFinishSql(body)
    \/ \E body \in LoginBodies : LoginSql(body)
    \/ \E token \in tokens : GameResultSql(token, token.userId, "Win", TRUE, 1, 50, 1)

SpecRoundTrip == InitRoundTrip /\ [][NextRoundTrip]_vars

\* the id of an account: userId in the in-memory and document stores, id in the users table
AccountId(u) == IF variant = "sql" THEN u.id ELSE u.userId

\* the password the client registered email with
RegisteredPassword(email) ==
    (CHOOSE body \in RoundTripRegisters : body.email = email).password

\* C22: register/login round trip.  Once register(email, password) has succeeded, a login
\* with that email and password succeeds and returns a token of that account, and a login
\* with that email and another password answers 401 Invalid credentials, whatever profile
\* updates and game results came in between.
C22_RegisterLoginRoundTrip ==
    \A i \in 1..Len(users) :
        (/\ resp.op = "login"
         /\ resp.req.password /= ""
         /\ resp.req.email = users[i].email
         /\ \E body \in RoundTripRegisters : body.email = users[i].email)
        => IF resp.req.password = RegisteredPassword(users[i].email)
           THEN /\ resp.status = 200
                /\ resp.body.token \in tokens
                /\ \E j \in 1..Len(users) :
                       /\ users[j].email = resp.req.email
                       /\ resp.body.token.userId = AccountId(users[j])
           ELSE /\ resp.status = 401
                /\ resp.body = [error |-> "Invalid credentials"]

\* C23: an account once created is never removed, and its id, username and email never
\* change, whatever register, login, profile-update, stats-update or game-result request
\* is served.
C23_AccountsKeepIdentity ==
    [][ /\ Len(users') >= Len(users)
        /\ \A i \in 1..Len(users) :
               /\ AccountId(users'[i]) = AccountId(users[i])
               /\ users'[i].username = users[i].username
               /\ users'[i].email = users[i].email ]_vars

\* the login time of an account: lastLogin, last_login in the users table
LastLogin(u) == IF variant = "sql" THEN u.last_login ELSE u.lastLogin

\* the fields of an account other than its login time
ButLastLogin(u) == DOMAIN u \ {"lastLogin", "last_login"}

\* C24: a successful login changes only the lastLogin field of the account it
\* authenticated; a login that fails (missing fields, unknown identity or wrong password)
\* changes no field of any account.
C24_LoginChangesLastLoginOnly ==
    [][ resp'.op = "login" =>
          /\ Len(users') = Len(users)
          /\ \A i \in 1..Len(users) :
                 /\ DOMAIN users'[i] = DOMAIN users[i]
                 /\ \A k \in ButLastLogin(users[i]) : users'[i][k] = users[i][k]
                 /\ users'[i] /= users[i] =>
                        /\ resp'.status = 200
                        /\ resp'.body.token.userId = AccountId(users[i])
          /\ resp'.status /= 200 => users' = users ]_vars

\* C24 witness: a login that succeeded after a game result, and that stamped the account
\* it gave a token for
C24_Witness ==
    /\ resp.op = "login" /\ resp.status = 200
    /\ \E i \in 1..Len(users) :
           /\ resp.body.token.userId = AccountId(users[i])
           /\ LastLogin(users[i]) = now
           /\ ledger[i].games = 1
           /\ users[i].coins = InitialCoins + 50

\* C25: in the in-memory server every account has experiencePoints = 100 * totalWins +
\* 25 * totalLosses and totalDraws = 0, and totalWins + totalLosses is the number of game
\* results accepted for it.
C25_ExperienceFromCounters ==
    variant = "mem" =>
        \A i \in 1..Len(users) :
            /\ users[i].experiencePoints
                   = XpWin * users[i].totalWins + XpLoss * users[i].totalLosses
            /\ users[i].totalDraws = 0
            /\ users[i].totalWins + users[i].totalLosses = ledger[i].games

\* C25 witness: an in-memory account that has won and lost, after a drawn game was
\* submitted for it
C25_Witness ==
    /\ variant = "mem"
    /\ \E i \in 1..Len(users) :
           /\ AppliedTo(i)
           /\ resp.req.outcome = "Draw"
           /\ users[i].totalWins > 0 /\ users[i].totalLosses > 0
           /\ users[i].experiencePoints = XpWin + XpLoss

====
